---- MODULE Spec2Model ----
(***************************************************************************)
(* Model of hologrid.GridEditor (src/hologrid/__init__.py): the boundary   *)
(* node store held by the PointDraw stream, the edge selection recorded by *)
(* the _boundary callback, the derived `ready` flag, the insert-node       *)
(* branch of the `points` callback, the client-side polarity toggle and    *)
(* the _generate_mesh callback with its cached mesh.                       *)
(*                                                                         *)
(* Python lists are sequences; Python positions are 0-based and are kept   *)
(* 0-based in `index` and `_selected_edge_index` (element k of a Python    *)
(* list is element k+1 of the sequence).  An optional value is None        *)
(* (<<>>) or Some(v) (<<v>>).  Coordinates are integers in model units;    *)
(* the value (sx+ex)/2. is modelled exactly and an insertion is explored   *)
(* only where that midpoint is an integer of the model.                    *)
(***************************************************************************)
EXTENDS Integers, Sequences, FiniteSets, TLC

VARIABLES
    data,                  \* self._node_stream.data: columns color, polarity, x, y
    index,                 \* value of the Selection1D stream on the boundary Path
    _selected_edge_index,  \* self._selected_edge_index (None until _boundary runs)
    ready,                 \* self.ready
    rendered,              \* view() has built and rendered the overlay
    focus,                 \* self.focus (None or a Focus object)
    grid,                  \* self.grid (None or the Gridgen object)
    qmesh,                 \* self.qmesh, the cached QuadMesh
    mesh_out,              \* element last returned by _generate_mesh, with its alphas
    gridgen_calls,         \* arguments of the pgg.Gridgen calls of the last handler run
    error,                 \* exception raised by the last handler run ("none" if none)
    last_op,               \* what ran last: the constructor, view(), a handler of a
                           \* node or selection event, or the mesh events served
    bio,                   \* the stream last returned by _geojson (None before)
    polarity_value         \* self.polarity_value: the weight of each polarity

vars == <<data, index, _selected_edge_index, ready, rendered, focus, grid,
          qmesh, mesh_out, gridgen_calls, error, last_op, bio,
          polarity_value>>

-----------------------------------------------------------------------------
(* Bounds of the exploration                                               *)

\* Longest node list the exploration lets an insertion produce.
MaxLen == 4

\* GridEditor.max_nodes (num_objects of the PointDraw tool), as passed to the
\* constructor of the modelled editor.
max_nodes == 3

\* Positions a click or a drag of the PointDraw tool can put a node at.
Points == {<<0, 0>>, <<2, 4>>}

-----------------------------------------------------------------------------
(* Optional values and list helpers                                        *)

None == <<>>
Some(v) == <<v>>

\* np.insert(arr, k, v): v becomes element k (0-based) of the result.
np_insert(arr, k, v) == SubSeq(arr, 1, k) \o <<v>> \o SubSeq(arr, k + 1, Len(arr))

\* The list without its element k (0-based).
without(arr, k) == SubSeq(arr, 1, k) \o SubSeq(arr, k + 2, Len(arr))

\* The last n elements of the list (all of it when it is shorter).
last_n(arr, n) == IF Len(arr) <= n THEN arr ELSE SubSeq(arr, Len(arr) - n + 1, Len(arr))

EmptyData == [color |-> <<>>, polarity |-> <<>>, x |-> <<>>, y |-> <<>>]

-----------------------------------------------------------------------------
(* Polarity                                                                *)

Polarities == {"+", "0", "-"}

\* A weight is a number n/d, kept exactly (d > 0): 1 is Fraction(1, 1) and
\* Python's 4/3 is Fraction(4, 3).
Fraction(n, d) == <<n, d>>

\* a + b and a == n for weights a, b and an integer n.
plus(a, b) == Fraction(a[1] * b[2] + b[1] * a[2], a[2] * b[2])
equals(a, n) == a[1] = n * a[2]

\* The default of the polarity_value parameter: {'+':1, '0':0, '-':-1}.
polarity_value_default ==
    [c \in Polarities |->
        CASE c = "+" -> Fraction(1, 1)
          [] c = "0" -> Fraction(0, 1)
          [] c = "-" -> Fraction(-1, 1)]

\* sum(self.polarity_value[el] for el in colors)
RECURSIVE summed(_)
summed(colors) ==
    IF colors = <<>> THEN Fraction(0, 1)
    ELSE plus(polarity_value[Head(colors)], summed(Tail(colors)))

\* Mutant of _ready: the node count is compared with 4 instead of 3.
_ready_more_than_four(d) ==
    IF Len(d.x) > 4
    THEN equals(summed(d.color), 4)
    ELSE FALSE

\* GridEditor._ready
_ready(d) ==
    IF Len(d.x) > 3
    THEN equals(summed(d.color), 4)
    ELSE FALSE

-----------------------------------------------------------------------------
(* The nodes DynamicMap: GridEditor.points                                 *)

\* Exception raised by points(data, insert_points, node_size), "none" if none.
\* `insert_points and len(sel)==1` is evaluated left to right: len(None)
\* raises TypeError; the reads at point_index-1 and point_index raise
\* IndexError when point_index is past the end of the column.
points_raises(d, insert_points, sel) ==
    IF ~insert_points THEN "none"
    ELSE IF sel = None THEN "TypeError"
    ELSE IF Len(sel[1]) # 1 THEN "none"
    ELSE IF sel[1][1] + 1 >= Len(d.x) \/ sel[1][1] + 1 >= Len(d.y) THEN "IndexError"
    ELSE "none"

\* Whether points takes its insertion branch.
points_inserts(d, insert_points, sel) ==
    /\ insert_points
    /\ sel # None
    /\ Len(sel[1]) = 1

\* (sx+ex) / 2.
midpoint(s, e) == (s + e) \div 2

\* Whether (s+e)/2. is a coordinate of the model.
Exact(s, e) == (s + e) % 2 = 0

\* Mutant of points: the new node is appended instead of inserted at point_index.
points_appends(d, insert_points, sel) ==
    LET new_data == [x |-> d.x, y |-> d.y, polarity |-> d.color] IN
    IF points_inserts(d, insert_points, sel)
    THEN LET point_index == sel[1][1] + 1
             sx == new_data.x[point_index]
             ex == new_data.x[point_index + 1]
             sy == new_data.y[point_index]
             ey == new_data.y[point_index + 1]
         IN  [x |-> Append(new_data.x, midpoint(sx, ex)),
              y |-> Append(new_data.y, midpoint(sy, ey)),
              polarity |-> Append(new_data.polarity, "+")]
    ELSE new_data

\* The columns of the hv.Points element points returns (no exception raised).
points(d, insert_points, sel) ==
    LET new_data == [x |-> d.x, y |-> d.y, polarity |-> d.color] IN
    IF points_inserts(d, insert_points, sel)
    THEN LET point_index == sel[1][1] + 1
             sx == new_data.x[point_index]
             ex == new_data.x[point_index + 1]
             sy == new_data.y[point_index]
             ey == new_data.y[point_index + 1]
         IN  [x |-> np_insert(new_data.x, point_index, midpoint(sx, ex)),
              y |-> np_insert(new_data.y, point_index, midpoint(sy, ey)),
              polarity |-> np_insert(new_data.polarity, point_index, "+")]
    ELSE new_data

\* The columns of the data source the nodes are drawn from, which the PointDraw
\* stream reports back as its data: the element's x, y and polarity, and the
\* color column that color=hv.dim('polarity') derives from polarity.
cds(element) ==
    [color |-> element.polarity, polarity |-> element.polarity,
     x |-> element.x, y |-> element.y]

-----------------------------------------------------------------------------
(* The boundary DynamicMap: GridEditor._boundary                           *)

\* Mutant of _boundary: ready is not recomputed.
_boundary_keeps_ready(d, idx) ==
    /\ _selected_edge_index' = Some(idx)
    /\ ready' = ready

\* Mutant of _boundary: the selection is recorded as empty.
_boundary_clears_selection(d, idx) ==
    /\ _selected_edge_index' = Some(<<>>)
    /\ ready' = _ready(d)

\* _boundary(data, index): records the selection and recomputes ready.
_boundary(d, idx) ==
    /\ _selected_edge_index' = Some(idx)
    /\ ready' = _ready(d)

-----------------------------------------------------------------------------
(* The mesh DynamicMap: GridEditor._generate_mesh                          *)

xres == 50
yres == 50
ul_idx == 0

\* self.mesh_style['line_alpha']
mesh_style_line_alpha == 1

\* hv.QuadMesh of zeros built by the constructor.
InitialQMesh == [of |-> None]

\* hv.QuadMesh((grid.x, grid.y, zs)) built from a Gridgen object.
QuadMesh(g) == [of |-> Some(g)]

\* An element as displayed: the mesh and the alphas set with .opts().
opts(mesh, fill_alpha, line_alpha) ==
    [mesh |-> mesh, fill_alpha |-> fill_alpha, line_alpha |-> line_alpha]

\* GridEditor.boundary: x, y and the numeric polarity of every node.
boundary(d) ==
    [x |-> d.x, y |-> d.y,
     polarity |-> [k \in 1..Len(d.color) |-> polarity_value[d.color[k]]]]

\* A BytesIO holding the documents written to it; BytesIO() holds no byte.
BytesIO == [written |-> <<>>]

\* GeoDataFrame.to_file(bio, driver='GeoJSON'): one feature collection with a
\* point feature per row, carrying the row's x, y and polarity.
to_file(b, stream) ==
    [written |-> Append(stream.written,
        [type |-> "FeatureCollection",
         features |-> [k \in 1..Len(b.x) |->
            [type |-> "Feature",
             geometry |-> [type |-> "Point", coordinates |-> <<b.x[k], b.y[k]>>],
             properties |-> [polarity |-> b.polarity[k],
                             x |-> b.x[k], y |-> b.y[k]]]]])]

\* GridEditor._geojson: the boundary is written only when it has rows.
_geojson(d) ==
    IF Len(boundary(d).x) # 0 THEN to_file(boundary(d), BytesIO) ELSE BytesIO

\* Mutant of gridgen_kwargs: focus is passed whether or not one is set.
gridgen_kwargs_always_focus(f) ==
    [k \in {"shape", "ul_idx", "focus"} |->
        CASE k = "shape" -> <<xres, yres>> [] k = "ul_idx" -> ul_idx [] k = "focus" -> f]

\* The keyword arguments of the Gridgen call: focus only when one is set.
gridgen_kwargs(f) ==
    IF f # None
    THEN [k \in {"shape", "ul_idx", "focus"} |->
            CASE k = "shape" -> <<xres, yres>> [] k = "ul_idx" -> ul_idx [] k = "focus" -> f]
    ELSE [k \in {"shape", "ul_idx"} |->
            CASE k = "shape" -> <<xres, yres>> [] k = "ul_idx" -> ul_idx]

\* The arguments of pgg.Gridgen(gdf.geometry.x, gdf.geometry.y, gdf.polarity, **kwargs).
gridgen_args(d, f) ==
    LET gdf == boundary(d) IN
    [x |-> gdf.x, y |-> gdf.y, beta |-> gdf.polarity, kwargs |-> gridgen_kwargs(f)]

\* The Gridgen object a successful call returns, known by what it was built from.
Gridgen(args) == [built_from |-> args]

\* The Gridgen call and what follows it (lines 311-320 of the source).
\* Mutants of _generate_mesh share it.
gridgen_call(ok) ==
    /\ gridgen_calls' = <<gridgen_args(data, focus)>>
    /\ IF ok
       THEN /\ grid' = Some(Gridgen(gridgen_args(data, focus)))
            /\ qmesh' = QuadMesh(Gridgen(gridgen_args(data, focus)))
            /\ mesh_out' = Some(opts(qmesh', 0, mesh_style_line_alpha))
            /\ error' = "none"
       ELSE /\ error' = "GridgenError"
            /\ UNCHANGED <<grid, qmesh, mesh_out>>

\* The two early returns of _generate_mesh: the cached mesh, hidden.
return_hidden ==
    /\ mesh_out' = Some(opts(qmesh, 0, 0))
    /\ gridgen_calls' = <<>>
    /\ error' = "none"
    /\ UNCHANGED <<grid, qmesh>>

\* Mutant of _generate_mesh: self.ready is not consulted.
_generate_mesh_ignores_ready(rdy, generate_mesh, hide_mesh, ok) ==
    IF hide_mesh \/ ~generate_mesh
    THEN return_hidden
    ELSE gridgen_call(ok)

\* Mutant of _generate_mesh: a generate request wins over a hide request.
_generate_mesh_generate_first(rdy, generate_mesh, hide_mesh, ok) ==
    IF ~rdy
    THEN return_hidden
    ELSE IF ~generate_mesh
    THEN return_hidden
    ELSE gridgen_call(ok)

\* Mutant of _generate_mesh: the cached mesh is dropped before the external
\* routine is called, so a failure leaves no mesh behind.
_generate_mesh_drops_cache(rdy, generate_mesh, hide_mesh, ok) ==
    IF ~rdy
    THEN return_hidden
    ELSE IF hide_mesh \/ ~generate_mesh
    THEN return_hidden
    ELSE IF ok
    THEN gridgen_call(ok)
    ELSE /\ gridgen_calls' = <<gridgen_args(data, focus)>>
         /\ error' = "GridgenError"
         /\ grid' = None
         /\ qmesh' = InitialQMesh
         /\ UNCHANGED mesh_out

\* Mutant of _generate_mesh: a ready boundary shows the cached mesh although no
\* generation was requested.
_generate_mesh_shows_cached(rdy, generate_mesh, hide_mesh, ok) ==
    IF ~rdy
    THEN return_hidden
    ELSE IF hide_mesh
    THEN return_hidden
    ELSE IF ~generate_mesh
    THEN /\ mesh_out' = Some(opts(qmesh, 0, mesh_style_line_alpha))
         /\ gridgen_calls' = <<>>
         /\ error' = "none"
         /\ UNCHANGED <<grid, qmesh>>
    ELSE gridgen_call(ok)

\* _generate_mesh(generate_mesh, hide_mesh) with self.ready read as rdy; ok says
\* whether the external routine returns (TRUE) or raises (FALSE).
_generate_mesh(rdy, generate_mesh, hide_mesh, ok) ==
    IF ~rdy
    THEN return_hidden
    ELSE IF hide_mesh \/ ~generate_mesh
    THEN return_hidden
    ELSE gridgen_call(ok)

-----------------------------------------------------------------------------
(* The client-side polarity toggle: PolarityCallback.source_code           *)

\* Mutant of swap: a two-state toggle that never writes '-'.
swap_two_state(c) == IF c = "+" THEN "0" ELSE "+"

\* The value the callback writes over polarity[index].
swap(c) == IF c = "+" THEN "0" ELSE IF c = "0" THEN "-" ELSE "+"

\* source_selected.indices after the callback ran: untouched by the two early
\* returns, emptied after a toggle.
PolarityCallback_indices(draw_tool_active, indices) ==
    IF draw_tool_active THEN indices
    ELSE IF indices = <<>> THEN indices
    ELSE <<>>

\* Mutant of PolarityCallback: the state of the draw tool is not looked at.
PolarityCallback_ignores_draw_tool(d, draw_tool_active, indices) ==
    IF indices = <<>> THEN d
    ELSE LET i == indices[1] + 1
             polarity == [d.color EXCEPT ![i] = swap(d.color[i])]
         IN  [d EXCEPT !.color = polarity, !.polarity = polarity]

\* The data source after the callback ran with the draw tool active or not and
\* with source_selected.indices = indices.
PolarityCallback(d, draw_tool_active, indices) ==
    IF draw_tool_active THEN d
    ELSE IF indices = <<>> THEN d
    ELSE LET i == indices[1] + 1
             polarity == [d.color EXCEPT ![i] = swap(d.color[i])]
         IN  [d EXCEPT !.color = polarity, !.polarity = polarity]

-----------------------------------------------------------------------------
(* Initial state: GridEditor.__init__                                      *)

\* GridEditor(): no nodes, default parameters.
Init ==
    /\ data = EmptyData
    /\ index = <<>>
    /\ _selected_edge_index = None
    /\ ready = FALSE
    /\ rendered = FALSE
    /\ focus = None
    /\ grid = None
    /\ qmesh = InitialQMesh
    /\ mesh_out = None
    /\ gridgen_calls = <<>>
    /\ error = "none"
    /\ last_op = "init"
    /\ bio = None
    /\ polarity_value = polarity_value_default

-----------------------------------------------------------------------------
(* Operations                                                              *)

mesh_vars == <<focus, grid, qmesh, mesh_out, gridgen_calls>>

\* The polarity weights and what the export leaves behind; no editing or mesh
\* operation touches them.
io_vars == <<bio, polarity_value>>

\* view(): the overlay is rendered; every DynamicMap callback runs once, with
\* the streams' initial contents (index = [], no event set).
View ==
    /\ ~rendered
    /\ rendered' = TRUE
    /\ points_raises(data, FALSE, _selected_edge_index) = "none"
    /\ _boundary(data, index)
    /\ _generate_mesh(_ready(data), FALSE, FALSE, TRUE)
    /\ last_op' = "view"
    /\ UNCHANGED <<data, index, focus>>
    /\ UNCHANGED io_vars

\* An event of the PointDraw stream carrying the node columns d: _boundary and
\* points(insert_points=False) run on it.
NodeStreamEvent(d) ==
    /\ data' = cds(points(d, FALSE, _selected_edge_index))
    /\ _boundary(data', index)
    /\ error' = "none"
    /\ UNCHANGED <<index, rendered>>

\* The PointDraw tool adds a node at p; every other column gets empty_value '+'.
\* With num_objects = max_nodes the tool first drops the oldest nodes so that
\* the list has max_nodes entries after the addition.
Add(p) ==
    /\ rendered
    /\ NodeStreamEvent(
         [color    |-> Append(last_n(data.color, max_nodes - 1), "+"),
          polarity |-> Append(last_n(data.polarity, max_nodes - 1), "+"),
          x        |-> Append(last_n(data.x, max_nodes - 1), p[1]),
          y        |-> Append(last_n(data.y, max_nodes - 1), p[2])])
    /\ last_op' = "node_event"
    /\ UNCHANGED mesh_vars
    /\ UNCHANGED io_vars

\* The PointDraw tool drags node i (0-based) to p.
Move(i, p) ==
    /\ rendered
    /\ i \in 0..(Len(data.x) - 1)
    /\ <<data.x[i + 1], data.y[i + 1]>> # p
    /\ NodeStreamEvent([data EXCEPT !.x[i + 1] = p[1], !.y[i + 1] = p[2]])
    /\ last_op' = "node_event"
    /\ UNCHANGED mesh_vars
    /\ UNCHANGED io_vars

\* The PointDraw tool deletes node i (0-based).
Delete(i) ==
    /\ rendered
    /\ i \in 0..(Len(data.x) - 1)
    /\ NodeStreamEvent(
         [color    |-> without(data.color, i),
          polarity |-> without(data.polarity, i),
          x        |-> without(data.x, i),
          y        |-> without(data.y, i)])
    /\ last_op' = "node_event"
    /\ UNCHANGED mesh_vars
    /\ UNCHANGED io_vars

\* A tap on a node: the polarity callback runs on the client data source and,
\* when it changed the data, the PointDraw stream reports the new columns.
TapNode(draw_tool_active, indices) ==
    /\ rendered
    /\ \A k \in 1..Len(indices) : indices[k] \in 0..(Len(data.x) - 1)
    /\ LET d == PolarityCallback(data, draw_tool_active, indices) IN
       IF d = data
       THEN UNCHANGED <<data, index, _selected_edge_index, ready, rendered, error>>
       ELSE NodeStreamEvent(d)
    /\ last_op' = "node_event"
    /\ UNCHANGED mesh_vars
    /\ UNCHANGED io_vars

\* A tap gesture on the boundary Path: the Selection1D stream takes the new
\* list of selected edges and _boundary runs on it.
TapEdge(idx) ==
    /\ rendered
    /\ idx # index
    /\ \A k \in 1..Len(idx) : idx[k] \in 0..(Len(data.x) - 2)
    /\ index' = idx
    /\ _boundary(data, idx)
    /\ error' = "none"
    /\ last_op' = "node_event"
    /\ UNCHANGED <<data, rendered>>
    /\ UNCHANGED mesh_vars
    /\ UNCHANGED io_vars

\* Mutant of InsertPoints: an insertion empties the edge selection.
InsertPoints_clears_selection ==
    /\ Len(data.x) < MaxLen
    /\ LET raised == points_raises(data, TRUE, _selected_edge_index)
           inserts == points_inserts(data, TRUE, _selected_edge_index)
       IN  IF raised # "none"
           THEN /\ error' = raised
                /\ UNCHANGED <<data, index, _selected_edge_index, ready, rendered>>
           ELSE IF inserts
           THEN /\ Exact(data.x[_selected_edge_index[1][1] + 1],
                         data.x[_selected_edge_index[1][1] + 2])
                /\ Exact(data.y[_selected_edge_index[1][1] + 1],
                         data.y[_selected_edge_index[1][1] + 2])
                /\ data' = cds(points(data, TRUE, _selected_edge_index))
                /\ index' = <<>>
                /\ _boundary(data', index')
                /\ error' = "none"
                /\ UNCHANGED rendered
           ELSE /\ error' = "none"
                /\ UNCHANGED <<data, index, _selected_edge_index, ready, rendered>>
    /\ last_op' = "node_event"
    /\ UNCHANGED mesh_vars
    /\ UNCHANGED io_vars

\* The insert_points event: points(data, insert_points=True, node_size) runs.
\* When it inserts, the redrawn data source is reported by the PointDraw
\* stream, on which _boundary and points(insert_points=False) run.
InsertPoints ==
    /\ Len(data.x) < MaxLen
    /\ LET raised == points_raises(data, TRUE, _selected_edge_index)
           inserts == points_inserts(data, TRUE, _selected_edge_index)
       IN  IF raised # "none"
           THEN /\ error' = raised
                /\ UNCHANGED <<data, index, _selected_edge_index, ready, rendered>>
           ELSE IF inserts
           THEN /\ Exact(data.x[_selected_edge_index[1][1] + 1],
                         data.x[_selected_edge_index[1][1] + 2])
                /\ Exact(data.y[_selected_edge_index[1][1] + 1],
                         data.y[_selected_edge_index[1][1] + 2])
                /\ NodeStreamEvent(cds(points(data, TRUE, _selected_edge_index)))
           ELSE /\ error' = "none"
                /\ UNCHANGED <<data, index, _selected_edge_index, ready, rendered>>
    /\ last_op' = "node_event"
    /\ UNCHANGED mesh_vars
    /\ UNCHANGED io_vars

\* Edge selections a tap gesture can produce on the drawn boundary: none, one
\* edge, or two adjacent edges (shift-tap).
Selections ==
    {<<>>} \cup {<<i>> : i \in 0..(Len(data.x) - 2)}
           \cup {<<i, i + 1>> : i \in 0..(Len(data.x) - 3)}

\* Node selections the tap tool can report: no node, or the tapped node.
NodeSelections == {<<>>} \cup {<<i>> : i \in 0..(Len(data.x) - 1)}

Next ==
    \/ View
    \/ \E p \in Points : Add(p)
    \/ \E i \in 0..(Len(data.x) - 1), p \in Points : Move(i, p)
    \/ \E i \in 0..(Len(data.x) - 1) : Delete(i)
    \/ \E a \in BOOLEAN, indices \in NodeSelections : TapNode(a, indices)
    \/ \E idx \in Selections : TapEdge(idx)
    \/ InsertPoints

Spec == Init /\ [][Next]_vars

-----------------------------------------------------------------------------
(* Mesh generation on boundaries given to the constructor                  *)

\* Boundaries given to the constructor: a triangle of three positive nodes, the
\* square of four positive nodes, and the same square with a neutral node on
\* its lower edge.
Triangle ==
    [color    |-> <<"+", "+", "+">>,
     polarity |-> <<"+", "+", "+">>,
     x        |-> <<0, 10, 0>>,
     y        |-> <<0, 0, 10>>]

Square ==
    [color    |-> <<"+", "+", "+", "+">>,
     polarity |-> <<"+", "+", "+", "+">>,
     x        |-> <<0, 10, 10, 0>>,
     y        |-> <<0, 0, 10, 10>>]

Pentagon ==
    [color    |-> <<"+", "0", "+", "+", "+">>,
     polarity |-> <<"+", "0", "+", "+", "+">>,
     x        |-> <<0, 5, 10, 10, 0>>,
     y        |-> <<0, 0, 0, 10, 10>>]

\* GridEditor(data, focus=...): the node columns of data fill the PointDraw
\* stream, the remaining parameters keep their defaults.
InitMesh ==
    /\ data \in {Triangle, Square, Pentagon}
    /\ focus \in {None, Some("focus")}
    /\ index = <<>>
    /\ _selected_edge_index = None
    /\ ready = FALSE
    /\ rendered = FALSE
    /\ grid = None
    /\ qmesh = InitialQMesh
    /\ mesh_out = None
    /\ gridgen_calls = <<>>
    /\ error = "none"
    /\ last_op = "init"
    /\ bio = None
    /\ polarity_value = polarity_value_default

\* An event of the generate_mesh / hide_mesh parameter stream: the mesh
\* DynamicMap runs _generate_mesh with the events set; ok says whether the
\* external routine returns or raises.
GenerateMesh(generate_mesh, hide_mesh, ok) ==
    /\ rendered
    /\ _generate_mesh(ready, generate_mesh, hide_mesh, ok)
    /\ last_op' = (IF generate_mesh /\ hide_mesh THEN "generate_mesh+hide_mesh"
                   ELSE IF generate_mesh THEN "generate_mesh"
                   ELSE IF hide_mesh THEN "hide_mesh"
                   ELSE "mesh_refresh")
    /\ UNCHANGED <<data, index, _selected_edge_index, ready, rendered, focus>>
    /\ UNCHANGED io_vars

NextMesh ==
    \/ View
    \/ \E a \in BOOLEAN, indices \in NodeSelections : TapNode(a, indices)
    \/ \E generate_mesh \in BOOLEAN, hide_mesh \in BOOLEAN, ok \in BOOLEAN :
          GenerateMesh(generate_mesh, hide_mesh, ok)

SpecMesh == InitMesh /\ [][NextMesh]_vars

-----------------------------------------------------------------------------
(* Serializable state, import and export                                   *)

\* Longest node list the constructor is given in the exploration of the
\* accessors.
MaxInit == 2

\* GridEditor._columns
_columns == {"color", "polarity", "x", "y"}

\* The mapping of the polarity_value documentation: '+' weighs 4/3.
polarity_value_four_thirds ==
    [polarity_value_default EXCEPT !["+"] = Fraction(4, 3)]

\* {p: getattr(self, p) for p in self.param}, for the parameters the model
\* keeps (name and grid are excluded by the accessor).
param_data ==
    [max_nodes |-> max_nodes, ul_idx |-> ul_idx, xres |-> xres, yres |-> yres,
     focus |-> focus, ready |-> ready, polarity_value |-> polarity_value]

\* Exception raised by `[el for el in v]` over the values stored under keys:
\* the node columns are lists and polarity_value is a dict; max_nodes, ul_idx,
\* xres, yres (int), ready (bool) and focus (None or a Focus) are not
\* iterable.
copy_raises(keys) ==
    IF keys \subseteq (_columns \cup {"polarity_value"})
    THEN "none" ELSE "TypeError"

\* Exception raised by the data property on the node store.
data_raises(store) == copy_raises(DOMAIN store)

\* The data property: the columns of the node store, updated with the
\* parameters, without the excluded keys.
serializable_state(store) ==
    LET merged == param_data @@ store
    IN  [k \in (DOMAIN merged) \ {"name", "fill_alpha", "grid"} |-> merged[k]]

\* Exception raised by the boundary property on the node store: every column
\* but color and fill_alpha is copied.
boundary_raises(store) == copy_raises((DOMAIN store) \ {"color", "fill_alpha"})

\* color_vals of from_geopandas: the inverse of the class default of
\* polarity_value.
color_vals(p) == CHOOSE c \in Polarities : polarity_value_default[c] = p

\* Exception raised by from_geopandas(df): color_vals[p] for a weight that is
\* not a default weight.
from_geopandas_raises(df) ==
    IF Len(df.x) = 0 THEN "none"
    ELSE IF \A k \in 1..Len(df.polarity) :
                \E c \in Polarities : polarity_value_default[c] = df.polarity[k]
    THEN "none" ELSE "KeyError"

\* The constructor argument from_geopandas(df) builds (GridEditor() for an
\* empty table).
from_geopandas(df) ==
    IF Len(df.x) = 0 THEN EmptyData
    ELSE LET color == [k \in 1..Len(df.polarity) |-> color_vals(df.polarity[k])]
         IN  [color |-> color, polarity |-> color, x |-> df.x, y |-> df.y]

\* GridEditor(d): every key of d that is not a node column is a parameter, and
\* the whole of d is handed to the PointDraw stream.
GridEditor(d) ==
    /\ data' = d
    /\ focus' = (IF "focus" \in DOMAIN d THEN d.focus ELSE None)
    /\ ready' = (IF "ready" \in DOMAIN d THEN d.ready ELSE FALSE)
    /\ polarity_value' = (IF "polarity_value" \in DOMAIN d
                          THEN d.polarity_value ELSE polarity_value_default)
    /\ index' = <<>>
    /\ _selected_edge_index' = None
    /\ rendered' = FALSE
    /\ grid' = None
    /\ qmesh' = InitialQMesh
    /\ mesh_out' = None
    /\ gridgen_calls' = <<>>
    /\ error' = "none"
    /\ bio' = None

\* The editor is replaced by GridEditor(editor.data).
Restore ==
    /\ IF data_raises(data) = "none"
       THEN GridEditor(serializable_state(data))
       ELSE /\ error' = "TypeError"
            /\ UNCHANGED <<data, index, _selected_edge_index, ready, rendered>>
            /\ UNCHANGED mesh_vars
            /\ UNCHANGED io_vars
    /\ last_op' = "restore"

\* The editor is replaced by GridEditor.from_geopandas(editor.boundary).
FromGeopandas ==
    /\ IF boundary_raises(data) # "none"
       THEN /\ error' = "TypeError"
            /\ UNCHANGED <<data, index, _selected_edge_index, ready, rendered>>
            /\ UNCHANGED mesh_vars
            /\ UNCHANGED io_vars
       ELSE IF from_geopandas_raises(boundary(data)) # "none"
       THEN /\ error' = "KeyError"
            /\ UNCHANGED <<data, index, _selected_edge_index, ready, rendered>>
            /\ UNCHANGED mesh_vars
            /\ UNCHANGED io_vars
       ELSE GridEditor(from_geopandas(boundary(data)))
    /\ last_op' = "from_geopandas"

\* The download button: FileDownload calls _geojson.
Download ==
    /\ IF boundary_raises(data) = "none"
       THEN /\ bio' = Some(_geojson(data))
            /\ error' = "none"
       ELSE /\ error' = "TypeError"
            /\ UNCHANGED bio
    /\ last_op' = "download"
    /\ UNCHANGED <<data, index, _selected_edge_index, ready, rendered>>
    /\ UNCHANGED mesh_vars
    /\ UNCHANGED polarity_value

\* Node lists of at most MaxInit nodes, any polarity, at the model's points.
NodeLists ==
    UNION {{[color    |-> c,
             polarity |-> c,
             x        |-> [k \in 1..n |-> p[k][1]],
             y        |-> [k \in 1..n |-> p[k][2]]] :
               c \in [1..n -> Polarities], p \in [1..n -> Points]} :
           n \in 0..MaxInit}

\* GridEditor(data, focus=..., polarity_value=...)
InitData ==
    /\ data \in NodeLists \cup {Triangle, Square}
    /\ focus \in {None, Some("focus")}
    /\ polarity_value \in {polarity_value_default, polarity_value_four_thirds}
    /\ index = <<>>
    /\ _selected_edge_index = None
    /\ ready = FALSE
    /\ rendered = FALSE
    /\ grid = None
    /\ qmesh = InitialQMesh
    /\ mesh_out = None
    /\ gridgen_calls = <<>>
    /\ error = "none"
    /\ last_op = "init"
    /\ bio = None

NextData ==
    \/ View
    \/ \E generate_mesh \in BOOLEAN, hide_mesh \in BOOLEAN, ok \in BOOLEAN :
          GenerateMesh(generate_mesh, hide_mesh, ok)
    \/ Download
    \/ Restore
    \/ FromGeopandas

SpecData == InitData /\ [][NextData]_vars

-----------------------------------------------------------------------------
(* Claims C1 - C6: the boundary editor                                     *)

\* The sum of the default polarity weights of a color column, counted per symbol.
C_weight_sum(colors) ==
    Cardinality({k \in 1..Len(colors) : colors[k] = "+"})
        - Cardinality({k \in 1..Len(colors) : colors[k] = "-"})

\* A step of the insert-node command that takes the insertion branch on the
\* rendered editor without raising.
C_InsertStep ==
    /\ InsertPoints
    /\ rendered
    /\ points_inserts(data, TRUE, _selected_edge_index)
    /\ points_raises(data, TRUE, _selected_edge_index) = "none"

C2_ReadyNeverStale ==
    rendered => (ready <=> _ready(data))

\* C2 witness: nodes were added, one was inserted at a midpoint (x = 1), the
\* boundary of four nodes is ready and the stored flag says so.
C2_Witness ==
    /\ rendered
    /\ error = "none"
    /\ \E k \in 1..Len(data.x) : data.x[k] = 1
    /\ Len(data.x) = 4
    /\ ready

\* The polarity after s in the cycle + -> 0 -> - -> +.
C3_cycle == <<"+", "0", "-">>
C3_next(s) ==
    LET k == CHOOSE j \in 1..3 : C3_cycle[j] = s IN C3_cycle[(k % 3) + 1]

\* C3: a tap on node i (draw tool inactive) moves the node's polarity one step
\* along + -> 0 -> - -> +, and three taps on the same node give back the
\* polarity it started with.
C3_ToggleCycle ==
    [][Len(data'.color) = Len(data.color) =>
          \A i \in 0..(Len(data.x) - 1) :
             (data'.color[i + 1] # data.color[i + 1] /\ TapNode(FALSE, <<i>>)) =>
                LET once   == PolarityCallback(data, FALSE, <<i>>)
                    twice  == PolarityCallback(once, FALSE, <<i>>)
                    thrice == PolarityCallback(twice, FALSE, <<i>>)
                IN  /\ data'.color[i + 1] = C3_next(data.color[i + 1])
                    /\ once.color[i + 1] # data.color[i + 1]
                    /\ twice.color[i + 1] # data.color[i + 1]
                    /\ thrice.color[i + 1] = data.color[i + 1]]_vars

\* C3 witness: a node is negative and another neutral (nodes are created
\* positive, so they were tapped twice and once).
C3_Witness ==
    /\ rendered
    /\ \E k \in 1..Len(data.color) : data.color[k] = "0"
    /\ \E k \in 1..Len(data.color) : data.color[k] = "-"

C5_SelectionCleared ==
    [][C_InsertStep => _selected_edge_index' = Some(<<>>)]_vars

\* C5 amended: an insertion leaves the edge selection as it was: the stored
\* selection is still the single edge i, i+1 is a position of the grown list,
\* and the insert-node command run again takes the insertion branch without
\* raising and yields one more node.
C5_SelectionKept ==
    [][C_InsertStep =>
          /\ _selected_edge_index' = _selected_edge_index
          /\ index' = index
          /\ points_inserts(data', TRUE, _selected_edge_index')
          /\ points_raises(data', TRUE, _selected_edge_index') = "none"
          /\ Len(points(data', TRUE, _selected_edge_index').x) = Len(data'.x) + 1]_vars

\* C5 witness: edge 0 of a two-node boundary has been split and edge 0 is
\* still the selection.
C5_Witness ==
    /\ error = "none"
    /\ rendered
    /\ _selected_edge_index = Some(<<0>>)
    /\ index = <<0>>
    /\ Len(data.x) = 3
    /\ data.x[2] = 1

\* C6 as stated: the insert-node command with no edge selected (the stored
\* selection still None included) or with several edges selected raises
\* nothing and leaves the node list as it was.
C6_InvalidInsertIgnored ==
    [][(/\ InsertPoints
        /\ IF _selected_edge_index = None THEN TRUE
           ELSE Len(_selected_edge_index[1]) # 1)
          => (error' = "none" /\ data' = data)]_vars

-----------------------------------------------------------------------------
(* Claims C7 - C10: mesh generation                                        *)

\* The numeric polarity of every node, symbol by symbol.
C_weights(colors) ==
    [k \in 1..Len(colors) |->
        IF colors[k] = "+" THEN Fraction(1, 1)
        ELSE IF colors[k] = "-" THEN Fraction(-1, 1) ELSE Fraction(0, 1)]

\* The cached mesh, returned with fill and line alpha 0.
C_hidden(mesh) == Some([mesh |-> mesh, fill_alpha |-> 0, line_alpha |-> 0])

\* C7: a generate-mesh request while ready is false raises nothing, does not
\* call the external routine, leaves qmesh and grid as they were and returns
\* the cached mesh with fill and line alpha 0.
C7_NotReadyNoOp ==
    [][\A hide_mesh \in BOOLEAN, ok \in BOOLEAN :
          (GenerateMesh(TRUE, hide_mesh, ok) /\ ~ready) =>
             /\ error' = "none"
             /\ gridgen_calls' = <<>>
             /\ qmesh' = qmesh
             /\ grid' = grid
             /\ mesh_out' = C_hidden(qmesh)]_vars

\* C7 witness: a generate request has just been answered with the hidden
\* cached mesh of an earlier generation, the boundary being not ready.
C7_Witness ==
    /\ last_op = "generate_mesh"
    /\ ~ready
    /\ error = "none"
    /\ grid # None
    /\ qmesh = QuadMesh(grid[1])
    /\ mesh_out = C_hidden(qmesh)

\* C8: a generate-mesh request while ready is true, with no hide request,
\* calls the external routine exactly once with the current x and y, the
\* numeric polarities, shape = (xres, yres), ul_idx, and the focus only when
\* one is set; when the routine returns, grid and qmesh are the new result and
\* the new mesh is returned with its lines visible.
C8_ReadyGenerates ==
    [][\A ok \in BOOLEAN :
          (GenerateMesh(TRUE, FALSE, ok) /\ ready) =>
             /\ Len(gridgen_calls') = 1
             /\ LET call == gridgen_calls'[1] IN
                   /\ call.x = data.x
                   /\ call.y = data.y
                   /\ call.beta = C_weights(data.color)
                   /\ call.kwargs["shape"] = <<50, 50>>
                   /\ call.kwargs["ul_idx"] = 0
                   /\ IF focus = None
                      THEN DOMAIN call.kwargs = {"shape", "ul_idx"}
                      ELSE /\ DOMAIN call.kwargs = {"shape", "ul_idx", "focus"}
                           /\ call.kwargs["focus"] = focus
                   /\ ok =>
                        /\ error' = "none"
                        /\ grid' = Some([built_from |-> call])
                        /\ qmesh' = [of |-> grid']
                        /\ mesh_out' = Some([mesh |-> qmesh', fill_alpha |-> 0,
                                             line_alpha |-> 1])]_vars

\* C8 witness: a generation with a focus set has just succeeded on a boundary
\* of five nodes whose second node was toggled to positive; grid holds the
\* result for the current nodes and the new mesh is shown.
C8_Witness ==
    /\ last_op = "generate_mesh"
    /\ error = "none"
    /\ ready
    /\ focus # None
    /\ Len(data.x) = 5
    /\ data.color[2] = "+"
    /\ grid # None
    /\ grid[1].built_from.x = data.x
    /\ grid[1].built_from.beta = C_weights(data.color)
    /\ mesh_out = Some([mesh |-> qmesh, fill_alpha |-> 0, line_alpha |-> 1])

\* C9: when the external routine raises during a ready generate-mesh request,
\* the exception reaches the caller after that single call, and grid, qmesh
\* and the rest of the editor state are as before the request.
C9_FailurePropagates ==
    [][(GenerateMesh(TRUE, FALSE, FALSE) /\ ready) =>
          /\ error' = "GridgenError"
          /\ Len(gridgen_calls') = 1
          /\ grid' = grid
          /\ qmesh' = qmesh
          /\ mesh_out' = mesh_out
          /\ data' = data
          /\ ready' = ready
          /\ _selected_edge_index' = _selected_edge_index
          /\ focus' = focus]_vars

\* C9 witness: the routine has just raised on a boundary other than the one
\* the cached mesh was built from, and the cached mesh is still there.
C9_Witness ==
    /\ last_op = "generate_mesh"
    /\ error = "GridgenError"
    /\ grid # None
    /\ grid[1].built_from.beta # C_weights(data.color)
    /\ qmesh = QuadMesh(grid[1])

\* C10: a hide-mesh request, alone or together with a generate request,
\* returns the mesh hidden, calls no generation and leaves qmesh and grid as
\* they were, whether or not the boundary is ready or a mesh was generated.
C10_HideKeepsMesh ==
    [][\A generate_mesh \in BOOLEAN, ok \in BOOLEAN :
          GenerateMesh(generate_mesh, TRUE, ok) =>
             /\ error' = "none"
             /\ gridgen_calls' = <<>>
             /\ qmesh' = qmesh
             /\ grid' = grid
             /\ mesh_out' = C_hidden(qmesh)]_vars

\* C10 witness: hide and generate arrived together on a ready boundary with a
\* generated mesh: the mesh is hidden and still cached.
C10_Witness ==
    /\ last_op = "generate_mesh+hide_mesh"
    /\ ready
    /\ grid # None
    /\ qmesh = QuadMesh(grid[1])
    /\ mesh_out = C_hidden(qmesh)

-----------------------------------------------------------------------------
(* Claims C11 - C18                                                        *)

\* The element returned by the mesh callback draws its lines.
C_shown(out) == out # None /\ out[1].line_alpha > 0

\* C11 as stated: the displayed mesh is hidden whenever ready is false or a
\* hide was requested, and shown otherwise: after view() or a mesh request the
\* mesh is hidden exactly when the boundary is not ready or the request was a
\* hide, and no state shows a mesh on a boundary that is not ready.
C11_HiddenIffNotReadyOrHidden ==
    /\ (rendered /\ ~ready) => ~C_shown(mesh_out)
    /\ (last_op \in {"view", "generate_mesh", "hide_mesh",
                     "generate_mesh+hide_mesh", "mesh_refresh"}
        /\ error = "none") =>
          (~C_shown(mesh_out) <=>
              (~ready \/ last_op \in {"hide_mesh", "generate_mesh+hide_mesh"}))

\* C11, amended: the mesh callback returns the mesh shown exactly when the
\* boundary is ready, a generation was requested, no hide was requested and
\* the external routine returned; every other evaluation that returns gives
\* the cached mesh hidden, a ready boundary alone shows nothing, and a mesh
\* that is shown is the generated one held in qmesh and grid.
C11_ShownOnlyByGenerate ==
    [][/\ \A generate_mesh \in BOOLEAN, hide_mesh \in BOOLEAN, ok \in BOOLEAN :
             GenerateMesh(generate_mesh, hide_mesh, ok) =>
                IF ready /\ generate_mesh /\ ~hide_mesh
                THEN IF ok THEN C_shown(mesh_out') /\ mesh_out'[1].mesh = qmesh'
                     ELSE error' = "GridgenError" /\ mesh_out' = mesh_out
                ELSE mesh_out' = C_hidden(qmesh)
       /\ View => mesh_out' = C_hidden(qmesh)
       /\ C_shown(mesh_out') =>
             /\ grid' # None
             /\ qmesh' = QuadMesh(grid'[1])
             /\ mesh_out'[1].mesh = qmesh']_vars

\* C11 witness: the mesh callback has just been evaluated with no request on a
\* ready boundary whose mesh was generated earlier and never asked to be
\* hidden by this evaluation: the mesh is returned hidden.
C11_Witness ==
    /\ last_op = "mesh_refresh"
    /\ ready
    /\ error = "none"
    /\ grid # None
    /\ qmesh = QuadMesh(grid[1])
    /\ mesh_out = C_hidden(qmesh)

\* C12: export on a boundary with zero nodes yields a structurally valid,
\* empty feature collection (not an empty byte stream), and export on a
\* non-empty boundary yields one point feature per node.
C12_ExportIsFeatureCollection ==
    [][Download =>
          /\ error' = "none"
          /\ bio' # None
          /\ Len(bio'[1].written) = 1
          /\ LET doc == bio'[1].written[1] IN
                /\ doc.type = "FeatureCollection"
                /\ Len(doc.features) = Len(data.x)
                /\ \A k \in 1..Len(data.x) :
                      /\ doc.features[k].geometry.type = "Point"
                      /\ doc.features[k].geometry.coordinates
                            = <<data.x[k], data.y[k]>>]_vars

\* C13: passing the record returned by the data accessor to the constructor
\* yields an editor with the same node list and the same configuration
\* values, whose node store holds only node columns, on which data and
\* boundary succeed and return the same values as on the original.
C13_StateRoundTrips ==
    [][Restore =>
          /\ error' = "none"
          /\ \A k \in {"color", "x", "y"} : data'[k] = data[k]
          /\ focus' = focus
          /\ polarity_value' = polarity_value
          /\ DOMAIN data' = _columns
          /\ data_raises(data') = "none"
          /\ boundary_raises(data') = "none"
          /\ (serializable_state(data))' = serializable_state(data)
          /\ (boundary(data))' = boundary(data)]_vars

\* C14: for an editor with the default polarity weights,
\* from_geopandas(editor.boundary) yields an editor whose boundary has the
\* same nodes in the same order with the same x, y and numeric polarity, and
\* an empty table yields an empty editor.
C14_FromBoundary ==
    [][(FromGeopandas /\ polarity_value = polarity_value_default) =>
          /\ error' = "none"
          /\ (boundary(data))' = boundary(data)
          /\ Len(data.x) = 0 => data' = EmptyData]_vars

\* C15: with '+' weighing 4/3, a boundary of exactly three positive nodes is
\* ready, and a generate-mesh request on it calls the external routine.
C15_ThreeNodesReady ==
    [][\A ok \in BOOLEAN :
          (/\ GenerateMesh(TRUE, FALSE, ok)
           /\ polarity_value = polarity_value_four_thirds
           /\ data.color = <<"+", "+", "+">>) =>
             /\ ready
             /\ Len(gridgen_calls') = 1]_vars

\* C16: the number of nodes of the boundary never exceeds max_nodes, whatever
\* sequence of add-node and insert-node operations ran.
C16_NeverMoreThanMaxNodes ==
    Len(data.x) <= max_nodes

\* C17: whenever the insert-node command is processed with a single selected
\* edge index i, both i and i+1 are positions of the current node list, so no
\* selection made before a deletion causes an out-of-range access.
C17_SelectedEdgeInRange ==
    [][(/\ InsertPoints
        /\ _selected_edge_index # None
        /\ Len(_selected_edge_index[1]) = 1) =>
          /\ _selected_edge_index[1][1] < Len(data.x) - 1
          /\ error' # "IndexError"]_vars

\* C18: a tap on a node changes nothing when the draw tool is active or when
\* no node index is selected; otherwise only the tapped node's polarity
\* changes, the color and polarity columns stay equal, every x and y and every
\* other node's polarity stay as they were, and the node selection is left
\* empty.
C18_TapTogglesOneNode ==
    [][\A draw_tool_active \in BOOLEAN, indices \in NodeSelections :
          TapNode(draw_tool_active, indices) =>
             IF draw_tool_active \/ indices = <<>>
             THEN /\ data' = data
                  /\ ready' = ready
                  /\ _selected_edge_index' = _selected_edge_index
                  /\ PolarityCallback_indices(draw_tool_active, indices) = indices
             ELSE /\ data'.x = data.x
                  /\ data'.y = data.y
                  /\ data'.color = data'.polarity
                  /\ Len(data'.color) = Len(data.color)
                  /\ \A k \in 1..Len(data.color) :
                        (data'.color[k] = data.color[k]) <=> (k # indices[1] + 1)
                  /\ PolarityCallback_indices(draw_tool_active, indices) = <<>>]_vars

\* C18 witness: taps have toggled the first node of the triangle twice and
\* its second node once; the third node and every coordinate are as the
\* constructor got them and the two columns agree.
C18_Witness ==
    /\ rendered
    /\ data.color = <<"-", "0", "+">>
    /\ data.polarity = data.color
    /\ data.x = Triangle.x
    /\ data.y = Triangle.y

====
